---------------------------- MODULE Spec2Model ----------------------------
(***************************************************************************)
(* Model of the reverie-engine core:                                       *)
(*   - Scene (reverie-engine/src/scene.rs): a hecs World of entities with  *)
(*     Transform / Sprite components and an ordered list of Systems, with  *)
(*     the setup / update / render dispatch;                               *)
(*   - Vao (reverie-engine-opengl/src/vao.rs): a vertex-array / buffer     *)
(*     handle pair created, drawn and dropped against a global OpenGL      *)
(*     context.                                                            *)
(***************************************************************************)
EXTENDS Integers, Sequences, FiniteSets, TLC

\* ------------------------------------------------------------------ bounds
MaxEntities == 2

MaxVaos == 2
MaxHandle == 2

\* ------------------------------------------------------------- input sets
TransformVals == {"t1"}
SpriteVals == {"s1", "s2"}
\* the System values the host owns; register_system moves a value into the Scene,
\* so each can be registered once
SystemNames == {"A", "B"}

\* VaoConfig: the four draw-time flags
Config(d, b, w, c) == [depth_test |-> d, blend |-> b, wireframe |-> w, culling |-> c]
\* What the two Vao builders pass to Vao::new: the outline builder (coloured
\* vertices, wireframe) and the geometry builder (textured vertices, blended).
\* The two configs differ in every flag, and both from a fresh context.
Builds == {[sizes |-> <<3, 4>>, usage |-> "STATIC_DRAW", vertex_num |-> 3,
            config |-> Config(TRUE, FALSE, TRUE, FALSE)],
           [sizes |-> <<3, 3, 2>>, usage |-> "DYNAMIC_DRAW", vertex_num |-> 6,
            config |-> Config(FALSE, TRUE, FALSE, TRUE)]}
\* What a caller that breaks the precondition of Vao::new passes: a declared
\* attribute count below or above the length of the layout, or layout vectors
\* of different lengths.
Mismatches == {[num_attributes |-> 1, types |-> <<"FLOAT", "FLOAT">>, sizes |-> <<3, 4>>],
               [num_attributes |-> 3, types |-> <<"FLOAT", "FLOAT">>, sizes |-> <<3, 4>>],
               [num_attributes |-> 2, types |-> <<"FLOAT">>, sizes |-> <<3, 4>>]}
\* cargo profiles: debug_assert! is compiled in with debug assertions on only
BuildProfiles == {"debug", "release"}
DrawModes == {"TRIANGLES", "LINES"}
TextureNames == {0, 1}

VARIABLES
    world,       \* Scene.world: live entity -> its components
    nextEntity,  \* the next entity identity hecs hands out
    systems,     \* Scene.systems: Vec<Box<dyn System>>, by name
    regLog,      \* history: the arguments of the register_system calls, in order
    lifecycle,   \* history: "Uninitialized" until the first Scene::setup, then "Ready"
    resetup,     \* history: Scene::setup was called again on a Ready Scene
    earlyTick,   \* history: an update or render ran on an Uninitialized Scene
    trace,       \* hooks invoked by the last Scene operation, in order
    lastOp,      \* the last Scene operation
    lastArg,     \* history: the entity and values of the last new_entity / attach_component
    structural   \* history: a system's update hook changed the World's structure

VARIABLES
    gl,          \* the OpenGL context: live names, bindings, render states
    vaos,        \* the Vao values of the program, by slot
    glcalls,     \* the GL calls of the last Vao operation, in order
    glOp,        \* history: the last Vao operation
    made,        \* history: per slot, the vertex_num its Vao was constructed with
    glArgs,      \* history: the attribute layout passed to the last Vao::new
    build        \* the profile the program was compiled with: "debug" or "release"

glVars == <<gl, vaos, glcalls, glOp, made, glArgs, build>>

sceneVars == <<world, nextEntity, systems, regLog, lifecycle, resetup,
               earlyTick, trace, lastOp, lastArg, structural>>

vars == <<sceneVars, glVars>>

\* ------------------------------------------------------------- components
NoTransform == "none"
NoSprite == [img |-> "none", ready |-> FALSE]

HasTransform(c) == c.transform # NoTransform
HasSprite(c) == c.sprite.img # "none"

\* faulty variant: the identity of a spawn taken from the lowest index not in
\* use, without a generation: a despawned identity is handed out again
AllocateReusingIndex(w, next) == CHOOSE i \in (1..next) \ DOMAIN w : \A j \in (1..next) \ DOMAIN w : i <= j

\* hecs: the Entity a spawn allocates (index and generation): one never handed
\* out before
Allocate(w, next) == next

\* faulty variant: a spawn that stores the Transform alone
SpawnWithoutSprite(w, id, t, s) ==
    [e \in (DOMAIN w) \cup {id} |->
        IF e = id THEN [transform |-> t, sprite |-> NoSprite] ELSE w[e]]

\* hecs: world.spawn((transform, sprite))
Spawn(w, id, t, s) ==
    [e \in (DOMAIN w) \cup {id} |->
        IF e = id THEN [transform |-> t, sprite |-> [img |-> s, ready |-> FALSE]]
        ELSE w[e]]

\* hecs: world.insert_one(entity, component): adds or replaces the component
InsertTransform(w, e, t) == [w EXCEPT ![e].transform = t]
\* faulty variant: an insert that keeps the Sprite the entity already has
InsertSpriteKeepFirst(w, e, s) ==
    IF HasSprite(w[e]) THEN w ELSE [w EXCEPT ![e].sprite = [img |-> s, ready |-> FALSE]]

InsertSprite(w, e, s) == [w EXCEPT ![e].sprite = [img |-> s, ready |-> FALSE]]

\* hecs: world.insert_one(entity, component) -> Result<(), NoSuchEntity>; on a
\* dead entity it returns the error and leaves the World as it is
InsertOne(w, e, type, val) ==
    IF e \notin DOMAIN w THEN [ok |-> FALSE, world |-> w]
    ELSE [ok |-> TRUE,
          world |-> IF type = "Transform" THEN InsertTransform(w, e, val)
                    ELSE InsertSprite(w, e, val)]

\* faulty variant: the render query matching on the Sprite alone
QueryIgnoringTransform(w) == {e \in DOMAIN w : HasSprite(w[e])}

\* hecs: the entities matched by query_mut::<&mut SpriteComponent>()
QuerySprite(w) == {e \in DOMAIN w : HasSprite(w[e])}
\* hecs: the entities matched by query_mut::<(&TransformComponent, &mut SpriteComponent)>()
QueryTransformSprite(w) == {e \in DOMAIN w : HasTransform(w[e]) /\ HasSprite(w[e])}

\* The iteration orders a query may produce over the matched entities.
Orders(S) == {q \in [1..Cardinality(S) -> S] : \A i, j \in DOMAIN q : i # j => q[i] # q[j]}

\* SpriteComponent::setup: the sprite's engine-resource-dependent initialization
SpriteSetup(w, e) == [w EXCEPT ![e].sprite.ready = TRUE]

Hook(h, e, s) == [hook |-> h, ent |-> e, sys |-> s]


\* ------------------------------------------------------------ System hooks
\* hecs: world.remove_one::<C>(entity) and world.despawn(entity), available to a
\* System's update hook through its &mut hecs::World
RemoveSprite(w, e) == [w EXCEPT ![e].sprite = NoSprite]
RemoveTransform(w, e) == [w EXCEPT ![e].transform = NoTransform]
Despawn(w, e) == [x \in (DOMAIN w) \ {e} |-> w[x]]

\* System::update(frame, &mut world, resource): the worlds one hook may leave
SystemUpdate(w) ==
    {w} \cup {RemoveSprite(w, e) : e \in DOMAIN w}
        \cup {RemoveTransform(w, e) : e \in DOMAIN w}
        \cup {Despawn(w, e) : e \in DOMAIN w}

\* ------------------------------------------------------- Scene operations
\* for system in &mut self.systems { system.update(frame, &mut self.world, resource) }
\* from system i on: every [world, log] the loop may end with, log naming the
\* systems whose hook ran, in the order they ran
RECURSIVE UpdateFrom(_, _, _)
UpdateFrom(w, syss, i) ==
    IF i > Len(syss) THEN {[world |-> w, log |-> <<>>]}
    ELSE UNION {
           {[world |-> r.world,
             log |-> <<syss[i]>> \o r.log]
              : r \in UpdateFrom(w2, syss, i + 1)}
           : w2 \in SystemUpdate(w)}

Reverse(q) == [i \in 1..Len(q) |-> q[Len(q) + 1 - i]]

\* faulty variant: Scene::update walking the systems last to first
SceneUpdateReversed(w, syss) == UpdateFrom(w, Reverse(syss), 1)

\* Scene::update
SceneUpdate(w, syss) == UpdateFrom(w, syss, 1)

SpriteHooks(h, ord) == [i \in 1..Len(ord) |-> Hook(h, ord[i], "")]
SystemHooks(h, syss) == [i \in 1..Len(syss) |-> Hook(h, 0, syss[i])]

RECURSIVE SetupSprites(_, _, _)
SetupSprites(w, ord, i) ==
    IF i > Len(ord) THEN w ELSE SetupSprites(SpriteSetup(w, ord[i]), ord, i + 1)

\* faulty variant: Scene::setup without its system loop
SceneSetupSpritesOnly(w, syss, ord) ==
    [world |-> SetupSprites(w, ord, 1), trace |-> SpriteHooks("sprite_setup", ord)]

\* faulty variant: Scene::setup with its two loops swapped
SceneSetupSystemsFirst(w, syss, ord) ==
    [world |-> SetupSprites(w, ord, 1),
     trace |-> SystemHooks("sys_setup", syss) \o SpriteHooks("sprite_setup", ord)]

\* Scene::setup, the sprite query iterating in order ord
SceneSetup(w, syss, ord) ==
    [world |-> SetupSprites(w, ord, 1),
     trace |-> SpriteHooks("sprite_setup", ord) \o SystemHooks("sys_setup", syss)]

\* Scene::render, the (Transform, Sprite) query iterating in order ord
SceneRender(w, syss, ord) == SpriteHooks("sprite_render", ord)

\* ---------------------------------------------------------- OpenGL context
\* A context c is [gl: the state, calls: the calls issued so far by the running
\* operation]; every gl.* call appends itself with the bindings it was issued
\* under, and a draw call also with the render states it was issued under.
RenderStates(g) ==
    [depth |-> g.depth, blend |-> g.blend, blendFunc |-> g.blendFunc,
     polygonMode |-> g.polygonMode, cull |-> g.cull]

Issue(c, fn, args, st) ==
    [gl |-> st,
     calls |-> Append(c.calls,
                 [fn |-> fn, args |-> args,
                  boundArray |-> c.gl.boundArray,
                  boundBuffer |-> c.gl.boundBuffer,
                  states |-> IF fn = "DrawArrays" THEN <<RenderStates(c.gl)>> ELSE <<>>])]

\* glGenVertexArrays(1, &mut vao): the driver hands out the unused name h, or
\* fails and leaves the variable at 0
GlGenVertexArrays(c, h) ==
    Issue(c, "GenVertexArrays", <<h>>,
          [c.gl EXCEPT !.arrays = IF h = 0 THEN @ ELSE @ \cup {h}])

\* glGenBuffers(1, &mut vbo)
GlGenBuffers(c, h) ==
    Issue(c, "GenBuffers", <<h>>,
          [c.gl EXCEPT !.buffers = IF h = 0 THEN @ ELSE @ \cup {h}])

\* glBindVertexArray(name): 0 unbinds; a name that is not live is an error and
\* leaves the binding as it is
GlBindVertexArray(c, n) ==
    Issue(c, "BindVertexArray", <<n>>,
          [c.gl EXCEPT !.boundArray = IF n = 0 \/ n \in c.gl.arrays THEN n ELSE @])

\* glBindBuffer(ARRAY_BUFFER, name)
GlBindBuffer(c, n) ==
    Issue(c, "BindBuffer", <<n>>,
          [c.gl EXCEPT !.boundBuffer = IF n = 0 \/ n \in c.gl.buffers THEN n ELSE @])

\* glBufferData(ARRAY_BUFFER, size, data, usage)
GlBufferData(c, size, usage) == Issue(c, "BufferData", <<size, usage>>, c.gl)

\* glEnableVertexAttribArray(index)
GlEnableVertexAttribArray(c, i) == Issue(c, "EnableVertexAttribArray", <<i>>, c.gl)

\* glVertexAttribPointer(index, size, type, FALSE, stride, offset)
GlVertexAttribPointer(c, i, size, type, stride, offset) ==
    Issue(c, "VertexAttribPointer", <<i, size, type, stride, offset>>, c.gl)

\* glEnable(cap) / glDisable(cap), cap one of depth, blend, cull
GlSetCap(c, cap, on) ==
    Issue(c, IF on THEN "Enable" ELSE "Disable", <<cap>>, [c.gl EXCEPT ![cap] = on])

\* glBlendFunc(sfactor, dfactor)
GlBlendFunc(c, src, dst) ==
    Issue(c, "BlendFunc", <<src, dst>>, [c.gl EXCEPT !.blendFunc = <<src, dst>>])

\* glPolygonMode(FRONT_AND_BACK, mode)
GlPolygonMode(c, mode) ==
    Issue(c, "PolygonMode", <<mode>>, [c.gl EXCEPT !.polygonMode = mode])

\* glDrawArrays(mode, first, count)
GlDrawArrays(c, mode, first, count) ==
    Issue(c, "DrawArrays", <<mode, first, count>>, c.gl)

\* glBindTexture(TEXTURE_2D, name)
GlBindTexture(c, n) ==
    Issue(c, "BindTexture", <<n>>, [c.gl EXCEPT !.boundTexture = n])

\* glDeleteBuffers(1, &name): frees the name; a bound buffer is unbound; a name
\* that is not live is ignored
GlDeleteBuffers(c, n) ==
    Issue(c, "DeleteBuffers", <<n>>,
          [c.gl EXCEPT !.buffers = @ \ {n},
                       !.boundBuffer = IF @ = n THEN 0 ELSE @])

\* glDeleteVertexArrays(1, &name)
GlDeleteVertexArrays(c, n) ==
    Issue(c, "DeleteVertexArrays", <<n>>,
          [c.gl EXCEPT !.arrays = @ \ {n},
                       !.boundArray = IF @ = n THEN 0 ELSE @])

\* --------------------------------------------------------------------- Vao
SizeOfGLfloat == 4

\* a slot that holds no Vao value yet
NoVao == [state |-> "none", vao |-> 0, vbo |-> 0, vertex_num |-> 0, config |-> Config(FALSE, FALSE, FALSE, FALSE)]
\* an operation on a Vao: its kind, the slot and the handles of the Vao, and (for
\* a double teardown) the number of calls its first run issued
Op(kind, i, v, n) == [op |-> kind, slot |-> i, vao |-> v.vao, vbo |-> v.vbo, n |-> n]
NoOp == [op |-> "none", slot |-> 0, vao |-> 0, vbo |-> 0, n |-> 0]

\* faulty variant: the loop passing the offset in components, not in bytes
RECURSIVE VaoAttributesOffsetInComponents(_, _, _, _, _, _, _)
VaoAttributesOffsetInComponents(c, i, num_attributes, types, sizes, stride, offset) ==
    IF i >= num_attributes THEN c
    ELSE VaoAttributesOffsetInComponents(
            GlVertexAttribPointer(GlEnableVertexAttribArray(c, i),
                                  i, sizes[i + 1], types[i + 1], stride, offset),
            i + 1, num_attributes, types, sizes, stride, offset + sizes[i + 1])

\* the for loop of Vao::new over the attributes i..num_attributes-1 (0-based),
\* offset counted in components
RECURSIVE VaoAttributes(_, _, _, _, _, _, _)
VaoAttributes(c, i, num_attributes, types, sizes, stride, offset) ==
    IF i >= num_attributes THEN c
    ELSE VaoAttributes(
            GlVertexAttribPointer(GlEnableVertexAttribArray(c, i),
                                  i, sizes[i + 1], types[i + 1], stride,
                                  offset * SizeOfGLfloat),
            i + 1, num_attributes, types, sizes, stride, offset + sizes[i + 1])

\* faulty variant: Vao::new without the BindBuffer(ARRAY_BUFFER, 0)
VaoNewLeakBinding(c, hv, hb, size, usage, num_attributes, types, sizes, stride, vertex_num, config) ==
    LET c1 == GlGenBuffers(GlGenVertexArrays(c, hv), hb)
        c2 == GlBufferData(GlBindBuffer(GlBindVertexArray(c1, hv), hb), size, usage)
        c3 == VaoAttributes(c2, 0, num_attributes, types, sizes, stride, 0)
    IN [c |-> GlBindVertexArray(c3, 0),
        vao |-> [state |-> "alive", vao |-> hv, vbo |-> hb,
                 vertex_num |-> vertex_num, config |-> config]]

\* Vao::new; hv and hb are the names the driver returns to the two Gen calls
VaoNew(c, hv, hb, size, usage, num_attributes, types, sizes, stride, vertex_num, config) ==
    LET c1 == GlGenBuffers(GlGenVertexArrays(c, hv), hb)
        c2 == GlBufferData(GlBindBuffer(GlBindVertexArray(c1, hv), hb), size, usage)
        c3 == VaoAttributes(c2, 0, num_attributes, types, sizes, stride, 0)
    IN [c |-> GlBindVertexArray(GlBindBuffer(c3, 0), 0),
        vao |-> [state |-> "alive", vao |-> hv, vbo |-> hb,
                 vertex_num |-> vertex_num, config |-> config]]

\* the smallest of a set of numbers
Least(S) == CHOOSE x \in S : \A y \in S : x <= y

\* Vao::new as compiled with profile b: the two debug_assert_eq! come first and
\* exist with debug assertions only; without them the loop indexes
\* attribute_sizes[i] and attribute_types[i] after EnableVertexAttribArray(i) and
\* panics at the first index past either vector, and a num_attributes below
\* both lengths goes through. A panic returns no Vao.
VaoNewIn(b, c, hv, hb, size, usage, num_attributes, types, sizes, stride, vertex_num, config) ==
    LET limit == Least({num_attributes, Len(types), Len(sizes)})
        c1 == GlGenBuffers(GlGenVertexArrays(c, hv), hb)
        c2 == GlBufferData(GlBindBuffer(GlBindVertexArray(c1, hv), hb), size, usage)
        c3 == VaoAttributes(c2, 0, limit, types, sizes, stride, 0)
        r == VaoNew(c, hv, hb, size, usage, num_attributes, types, sizes, stride, vertex_num, config)
    IN IF b = "debug" /\ (num_attributes # Len(types) \/ num_attributes # Len(sizes))
       THEN [c |-> c, vao |-> NoVao, panicked |-> TRUE]
       ELSE IF limit < num_attributes
       THEN [c |-> GlEnableVertexAttribArray(c3, limit), vao |-> NoVao, panicked |-> TRUE]
       ELSE [c |-> r.c, vao |-> r.vao, panicked |-> FALSE]

\* the attribute layout a Vao::new call was given
NewArgs(num_attributes, types, sizes, stride) == [num_attributes |-> num_attributes, types |-> types, sizes |-> sizes, stride |-> stride]
NoNewArgs == NewArgs(0, <<>>, <<>>, 0)

\* faulty variant: the toggles without their Disable branches
VaoDrawStatesEnableOnly(c, config) ==
    LET c1 == IF config.depth_test THEN GlSetCap(c, "depth", TRUE) ELSE c
        c2 == IF config.blend
              THEN GlBlendFunc(GlSetCap(c1, "blend", TRUE), "SRC_ALPHA", "ONE_MINUS_SRC_ALPHA")
              ELSE c1
        c3 == GlPolygonMode(c2, IF config.wireframe THEN "LINE" ELSE "FILL")
    IN IF config.culling THEN GlSetCap(c3, "cull", TRUE) ELSE c3

\* the four state toggles at the head of Vao::draw
VaoDrawStates(c, config) ==
    LET c1 == GlSetCap(c, "depth", config.depth_test)
        c2 == IF config.blend
              THEN GlBlendFunc(GlSetCap(c1, "blend", TRUE), "SRC_ALPHA", "ONE_MINUS_SRC_ALPHA")
              ELSE GlSetCap(c1, "blend", FALSE)
        c3 == GlPolygonMode(c2, IF config.wireframe THEN "LINE" ELSE "FILL")
    IN GlSetCap(c3, "cull", config.culling)

\* faulty variant: Vao::draw without the BindTexture(TEXTURE_2D, 0)
VaoDrawNoTextureReset(c, v, draw_mode) ==
    GlBindVertexArray(
       GlDrawArrays(GlBindVertexArray(VaoDrawStates(c, v.config), v.vao),
                    draw_mode, 0, v.vertex_num), 0)

\* faulty variant: Vao::draw uploading the buffer again before it draws
VaoDrawReuploading(c, v, draw_mode) ==
    GlBindTexture(
       GlBindVertexArray(
          GlDrawArrays(
             GlBindVertexArray(
                GlBindBuffer(
                   GlBufferData(GlBindBuffer(VaoDrawStates(c, v.config), v.vbo),
                                0, "STATIC_DRAW"), 0), v.vao),
             draw_mode, 0, v.vertex_num), 0), 0)

\* Vao::draw(uniforms, draw_mode)
VaoDraw(c, v, draw_mode) ==
    GlBindTexture(
       GlBindVertexArray(
          GlDrawArrays(GlBindVertexArray(VaoDrawStates(c, v.config), v.vao),
                       draw_mode, 0, v.vertex_num), 0), 0)

\* Vao::draw_triangles(uniforms)
VaoDrawTriangles(c, v) == VaoDraw(c, v, "TRIANGLES")

\* faulty variant: drop without the non-zero checks
VaoDropUnguarded(c, v) == GlDeleteVertexArrays(GlDeleteBuffers(c, v.vbo), v.vao)

\* faulty variant: drop that forgets the vertex array
VaoDropBufferOnly(c, v) == IF v.vbo > 0 THEN GlDeleteBuffers(c, v.vbo) ELSE c

\* faulty variant: drop deleting the vertex array before the buffer
VaoDropArrayFirst(c, v) ==
    LET c1 == IF v.vao > 0 THEN GlDeleteVertexArrays(c, v.vao) ELSE c
    IN IF v.vbo > 0 THEN GlDeleteBuffers(c1, v.vbo) ELSE c1

\* <Vao as Drop>::drop
VaoDrop(c, v) ==
    LET c1 == IF v.vbo > 0 THEN GlDeleteBuffers(c, v.vbo) ELSE c
    IN IF v.vao > 0 THEN GlDeleteVertexArrays(c1, v.vao) ELSE c1

\* faulty variant: attach_component dropping the Result of insert_one
SceneAttachComponentIgnoringErr(w, e, type, val) ==
    [world |-> InsertOne(w, e, type, val).world, panicked |-> FALSE]

\* Scene::attach_component: insert_one(...).unwrap_or_log() logs and panics on Err
SceneAttachComponent(w, e, type, val) ==
    LET r == InsertOne(w, e, type, val)
    IN [world |-> r.world, panicked |-> ~r.ok]

\* Scene::new_entity: the World after the spawn and the EntityIndex returned
SceneNewEntity(w, next, t, s) ==
    LET entity == Allocate(w, next)
    IN [world |-> Spawn(w, entity, t, s), entity |-> entity]

\* <Scene as Debug>::fmt: the "#world" field, world.len()
SceneDebug(w) == Cardinality(DOMAIN w)

\* the arguments of a new_entity / attach_component call that returned: the
\* entity (returned or passed), the component values passed ("" where none),
\* and the value of that type the entity held before ("" for new_entity); of a
\* call that panicked, the entity passed
Arg(e, t, s, old) == [ent |-> e, transform |-> t, sprite |-> s, old |-> old]
NoArg == Arg(0, "", "", "")

\* ----------------------------------------------------------------- actions
SceneInit ==
    /\ world = <<>>
    /\ nextEntity = 1
    /\ systems = <<>>
    /\ regLog = <<>>
    /\ lifecycle = "Uninitialized"
    /\ resetup = FALSE
    /\ earlyTick = FALSE
    /\ trace = <<>>
    /\ lastOp = "new"
    /\ lastArg = NoArg
    /\ structural = FALSE

\* the EntityIndex values the host holds: every one new_entity has returned
Issued == 1..(nextEntity - 1)

\* Scene::new_entity(transform, sprite)
NewEntity ==
    /\ nextEntity <= MaxEntities
    /\ \E t \in TransformVals, s \in SpriteVals :
          LET r == SceneNewEntity(world, nextEntity, t, s)
          IN /\ world' = r.world
             /\ lastArg' = Arg(r.entity, t, s, "")
    /\ nextEntity' = nextEntity + 1
    /\ trace' = <<>>
    /\ lastOp' = "new_entity"
    /\ UNCHANGED <<systems, regLog, lifecycle, resetup, earlyTick, structural>>
    /\ UNCHANGED glVars

\* Scene::attach_component::<TransformComponent>(entity, component)
AttachTransform ==
    /\ \E e \in Issued, t \in TransformVals :
          LET r == SceneAttachComponent(world, e, "Transform", t)
              old == IF e \in DOMAIN world THEN world[e].transform ELSE ""
          IN /\ world' = r.world
             /\ lastOp' = (IF r.panicked THEN "attach_component_panic"
                           ELSE "attach_component")
             /\ lastArg' = (IF r.panicked THEN Arg(e, "", "", "")
                            ELSE Arg(e, t, "", old))
    /\ trace' = <<>>
    /\ UNCHANGED <<nextEntity, systems, regLog, lifecycle, resetup, earlyTick,
                   structural>>
    /\ UNCHANGED glVars

\* Scene::attach_component::<SpriteComponent>(entity, component)
AttachSprite ==
    /\ \E e \in Issued, s \in SpriteVals :
          LET r == SceneAttachComponent(world, e, "Sprite", s)
              old == IF e \in DOMAIN world THEN world[e].sprite.img ELSE ""
          IN /\ world' = r.world
             /\ lastOp' = (IF r.panicked THEN "attach_component_panic"
                           ELSE "attach_component")
             /\ lastArg' = (IF r.panicked THEN Arg(e, "", "", "")
                            ELSE Arg(e, "", s, old))
    /\ trace' = <<>>
    /\ UNCHANGED <<nextEntity, systems, regLog, lifecycle, resetup, earlyTick,
                   structural>>
    /\ UNCHANGED glVars

\* self.systems.push(Box::new(system))
Register(syss, s) == Append(syss, s)

\* Scene::register_system(system)
RegisterSystem ==
    /\ \E s \in SystemNames \ {systems[i] : i \in DOMAIN systems} :
          /\ systems' = Register(systems, s)
          /\ regLog' = Append(regLog, s)
    /\ trace' = <<>>
    /\ lastOp' = "register_system"
    /\ lastArg' = NoArg
    /\ UNCHANGED <<world, nextEntity, lifecycle, resetup, earlyTick, structural>>
    /\ UNCHANGED glVars

\* Scene::setup(resource)
Setup ==
    /\ \E ord \in Orders(QuerySprite(world)) :
          LET r == SceneSetup(world, systems, ord)
          IN /\ world' = r.world
             /\ trace' = r.trace
    /\ lifecycle' = "Ready"
    /\ resetup' = (resetup \/ lifecycle = "Ready")
    /\ lastOp' = "setup"
    /\ lastArg' = NoArg
    /\ UNCHANGED <<nextEntity, systems, regLog, earlyTick, structural>>
    /\ UNCHANGED glVars

\* Scene::update(frame, resource)
Update ==
    /\ \E r \in SceneUpdate(world, systems) :
          /\ world' = r.world
          /\ trace' = [i \in DOMAIN r.log |-> Hook("sys_update", 0, r.log[i])]
          /\ structural' = (structural \/ r.world # world)
    /\ earlyTick' = (earlyTick \/ lifecycle = "Uninitialized")
    /\ lastOp' = "update"
    /\ lastArg' = NoArg
    /\ UNCHANGED <<nextEntity, systems, regLog, lifecycle, resetup>>
    /\ UNCHANGED glVars

\* Scene::render(rp, resource)
Render ==
    /\ \E ord \in Orders(QueryTransformSprite(world)) :
          trace' = SceneRender(world, systems, ord)
    /\ earlyTick' = (earlyTick \/ lifecycle = "Uninitialized")
    /\ lastOp' = "render"
    /\ lastArg' = NoArg
    /\ UNCHANGED <<world, nextEntity, systems, regLog, lifecycle, resetup,
                   structural>>
    /\ UNCHANGED glVars

SceneNext ==
    \/ NewEntity
    \/ AttachTransform
    \/ AttachSprite
    \/ RegisterSystem
    \/ Setup
    \/ Update
    \/ Render

\* The OpenGL defaults of a fresh context
GlInit ==
    /\ gl = [arrays |-> {}, buffers |-> {},
             boundArray |-> 0, boundBuffer |-> 0, boundTexture |-> 0,
             depth |-> FALSE, blend |-> FALSE, cull |-> FALSE,
             blendFunc |-> <<"ONE", "ZERO">>, polygonMode |-> "FILL"]
    /\ vaos = [i \in 1..MaxVaos |-> NoVao]
    /\ glcalls = <<>>
    /\ glOp = NoOp
    /\ made = [i \in 1..MaxVaos |-> 0]
    /\ glArgs = NoNewArgs

\* the program as the repository builds it by default
Init == SceneInit /\ GlInit /\ build = "debug"

\* the program built with either profile
InitAnyBuild == SceneInit /\ GlInit /\ build \in BuildProfiles

RECURSIVE Sum(_)
Sum(q) == IF q = <<>> THEN 0 ELSE Head(q) + Sum(Tail(q))

Fresh(c) == [gl |-> c, calls |-> <<>>]

Min(S) == CHOOSE x \in S : \A y \in S : x <= y

\* What the driver may return to a Gen call: 0 when it fails (always, once the
\* MaxHandle names are in use), else an unused name. Names are interchangeable,
\* so the driver is taken to hand out the lowest unused one.
GenResults(used) ==
    LET free == (1..MaxHandle) \ used
    IN IF free = {} THEN {0} ELSE {0, Min(free)}

\* the slots that hold no Vao value; values are interchangeable, a new one takes
\* the lowest free slot
FreeSlots == {i \in 1..MaxVaos : vaos[i].state = "none"}

\* a Vao builder calling Vao::new
VaoCreate ==
    /\ FreeSlots # {}
    /\ \E hv \in GenResults(gl.arrays), hb \in GenResults(gl.buffers),
          b \in Builds :
          LET i == Min(FreeSlots)
              sizes == b.sizes
              usage == b.usage
              vertex_num == b.vertex_num
              config == b.config
              stride == Sum(sizes) * SizeOfGLfloat
              types == [k \in DOMAIN sizes |-> "FLOAT"]
              r == VaoNewIn(build, Fresh(gl), hv, hb, vertex_num * stride, usage,
                            Len(sizes), types, sizes, stride, vertex_num, config)
          IN /\ gl' = r.c.gl
             /\ glcalls' = r.c.calls
             /\ vaos' = [vaos EXCEPT ![i] = r.vao]
             /\ made' = [made EXCEPT ![i] = vertex_num]
             /\ glOp' = Op("new", i, r.vao, 0)
             /\ glArgs' = NewArgs(Len(sizes), types, sizes, stride)
    /\ UNCHANGED <<build, sceneVars>>

\* a caller of Vao::new whose declared attribute count and layout disagree
VaoCreateMismatched ==
    /\ FreeSlots # {}
    /\ \E hv \in GenResults(gl.arrays), hb \in GenResults(gl.buffers),
          b \in Builds, l \in Mismatches :
          LET i == Min(FreeSlots)
              stride == Sum(l.sizes) * SizeOfGLfloat
              r == VaoNewIn(build, Fresh(gl), hv, hb, b.vertex_num * stride, b.usage,
                            l.num_attributes, l.types, l.sizes, stride,
                            b.vertex_num, b.config)
          IN /\ gl' = r.c.gl
             /\ glcalls' = r.c.calls
             /\ glArgs' = NewArgs(l.num_attributes, l.types, l.sizes, stride)
             /\ IF r.panicked
                THEN /\ glOp' = Op("new_panic", 0, NoVao, 0)
                     /\ UNCHANGED <<vaos, made>>
                ELSE /\ glOp' = Op("new", i, r.vao, 0)
                     /\ vaos' = [vaos EXCEPT ![i] = r.vao]
                     /\ made' = [made EXCEPT ![i] = b.vertex_num]
    /\ UNCHANGED <<build, sceneVars>>

\* the context a renderer calls draw in: it has bound its texture t
WithTexture(g, t) == Fresh([g EXCEPT !.boundTexture = t])

\* a renderer calling Vao::draw on the live Vao of slot i
VaoDrawAction ==
    /\ \E i \in 1..MaxVaos, mode \in DrawModes, t \in TextureNames :
          /\ vaos[i].state = "alive"
          /\ LET c == VaoDraw(WithTexture(gl, t), vaos[i], mode)
             IN /\ gl' = c.gl
                /\ glcalls' = c.calls
          /\ glOp' = Op("draw", i, vaos[i], 0)
    /\ glArgs' = NoNewArgs
    /\ UNCHANGED <<vaos, made, build, sceneVars>>

\* a renderer calling Vao::draw_triangles on the live Vao of slot i
VaoDrawTrianglesAction ==
    /\ \E i \in 1..MaxVaos, t \in TextureNames :
          /\ vaos[i].state = "alive"
          /\ LET c == VaoDrawTriangles(WithTexture(gl, t), vaos[i])
             IN /\ gl' = c.gl
                /\ glcalls' = c.calls
          /\ glOp' = Op("draw", i, vaos[i], 0)
    /\ glArgs' = NoNewArgs
    /\ UNCHANGED <<vaos, made, build, sceneVars>>

\* the Vao of slot i goes out of scope: drop runs once and the value is gone
VaoDropAction ==
    /\ \E i \in 1..MaxVaos :
          /\ vaos[i].state = "alive"
          /\ LET c == VaoDrop(Fresh(gl), vaos[i])
             IN /\ gl' = c.gl
                /\ glcalls' = c.calls
          /\ vaos' = [vaos EXCEPT ![i] = NoVao]
          /\ made' = [made EXCEPT ![i] = 0]
          /\ glOp' = Op("drop", i, vaos[i], 0)
    /\ glArgs' = NoNewArgs
    /\ UNCHANGED <<build, sceneVars>>

\* the teardown sequence runs twice on the value of slot i (its destructor run
\* in place, then again); glOp.n is the number of calls the first run issued
VaoDropTwice ==
    /\ \E i \in 1..MaxVaos :
          /\ vaos[i].state = "alive"
          /\ LET c1 == VaoDrop(Fresh(gl), vaos[i])
                 c2 == VaoDrop(c1, vaos[i])
             IN /\ gl' = c2.gl
                /\ glcalls' = c2.calls
                /\ glOp' = Op("drop_twice", i, vaos[i], Len(c1.calls))
          /\ vaos' = [vaos EXCEPT ![i] = NoVao]
          /\ made' = [made EXCEPT ![i] = 0]
    /\ glArgs' = NoNewArgs
    /\ UNCHANGED <<build, sceneVars>>

VaoNext ==
    \/ VaoCreate
    \/ VaoDrawAction
    \/ VaoDrawTrianglesAction
    \/ VaoDropAction

VaoTeardownNext ==
    \/ VaoCreate
    \/ VaoDrawAction
    \/ VaoDrawTrianglesAction
    \/ VaoDropAction
    \/ VaoDropTwice

VaoLayoutNext ==
    \/ VaoCreate
    \/ VaoCreateMismatched
    \/ VaoDrawAction
    \/ VaoDrawTrianglesAction
    \/ VaoDropAction

Next == SceneNext \/ VaoNext

\* the whole program
Spec == Init /\ [][Next]_vars

\* the Scene and its host
SpecScene == Init /\ [][SceneNext]_vars

\* the Vao values and the OpenGL context
SpecVao == Init /\ [][VaoNext]_vars

\* the same, where the teardown sequence may run again on a dropped value
SpecVaoTeardown == Init /\ [][VaoTeardownNext]_vars

\* the Vao values and the OpenGL context of a program built with either
\* profile, where a caller may break the layout precondition of Vao::new
SpecVaoLayout == InitAnyBuild /\ [][VaoLayoutNext]_vars


\* ------------------------------------------------------------------ claims
HooksOf(tr, h) == SelectSeq(tr, LAMBDA x : x.hook = h)
SysNames(tr) == [i \in DOMAIN tr |-> tr[i].sys]
TimesEntity(tr, h, e) == Cardinality({i \in DOMAIN tr : tr[i].hook = h /\ tr[i].ent = e})
TimesSystem(tr, h, s) == Cardinality({i \in DOMAIN tr : tr[i].hook = h /\ tr[i].sys = s})
Registered == {systems[i] : i \in DOMAIN systems}

\* C1: every Scene::update runs the update hook of every registered system
\* exactly once, in the order of the register_system calls, and runs nothing else.
C1_UpdateInRegistrationOrder ==
    lastOp = "update" =>
        /\ \A i \in DOMAIN trace : trace[i].hook = "sys_update"
        /\ SysNames(trace) = regLog

C1_Witness ==
    /\ lastOp = "update"
    /\ regLog = <<"B", "A">>
    /\ Len(trace) = 2

\* C2: every Scene::render runs the render hook of every registered system
\* exactly once, in registration order, after all the sprite renders of the call.
C2_RenderRunsSystemHooks ==
    lastOp = "render" =>
        /\ SysNames(HooksOf(trace, "sys_render")) = regLog
        /\ \A i, j \in DOMAIN trace :
              (trace[i].hook = "sprite_render" /\ trace[j].hook = "sys_render") => i < j

\* C3: every Scene::render renders each entity that has both a Transform and a
\* Sprite exactly once, and no entity that lacks one of the two.
C3_RenderExactlyTransformSprite ==
    lastOp = "render" =>
        /\ \A i \in DOMAIN trace :
              trace[i].hook = "sprite_render" => trace[i].ent \in DOMAIN world
        /\ \A e \in DOMAIN world :
              TimesEntity(trace, "sprite_render", e) =
                 (IF HasTransform(world[e]) /\ HasSprite(world[e]) THEN 1 ELSE 0)

C3_Witness ==
    /\ lastOp = "render"
    /\ \E e \in DOMAIN world : TimesEntity(trace, "sprite_render", e) = 1
    /\ \E e \in DOMAIN world : HasSprite(world[e]) /\ ~HasTransform(world[e])

\* C4: Scene::setup runs setup once on the Sprite of every entity that has one,
\* then setup on every registered system once, in registration order; all the
\* sprite setups come before all the system setups.
C4_SetupSpritesThenSystems ==
    lastOp = "setup" =>
        LET sprites == HooksOf(trace, "sprite_setup")
            syshooks == HooksOf(trace, "sys_setup")
        IN /\ trace = sprites \o syshooks
           /\ SysNames(syshooks) = regLog
           /\ \A i \in DOMAIN sprites : sprites[i].ent \in DOMAIN world
           /\ \A e \in DOMAIN world :
                 TimesEntity(trace, "sprite_setup", e) =
                    (IF HasSprite(world[e]) THEN 1 ELSE 0)

C4_Witness ==
    /\ lastOp = "setup"
    /\ Len(regLog) = 2
    /\ \E e \in DOMAIN world : TimesEntity(trace, "sprite_setup", e) = 1
    /\ \E e \in DOMAIN world : ~HasSprite(world[e])

\* C5 as stated: Scene::setup runs exactly once, and no update or render runs
\* on a Scene that is still Uninitialized.
C5_SetupOnceBeforeFirstTick == ~resetup /\ ~earlyTick

\* C5 amended: the Scene does not enforce its lifecycle. Every Scene::setup call,
\* the first or a repeated one, runs every setup hook once; update and render run
\* their hooks on an Uninitialized Scene too and never run a setup hook.
C5_SetupHooksOncePerCall ==
    /\ lastOp = "setup" =>
          /\ lifecycle = "Ready"
          /\ \A s \in Registered : TimesSystem(trace, "sys_setup", s) = 1
          /\ \A e \in DOMAIN world : HasSprite(world[e]) => world[e].sprite.ready
    /\ lastOp \in {"update", "render"} =>
          /\ \A i \in DOMAIN trace : trace[i].hook \notin {"sys_setup", "sprite_setup"}
          /\ (lifecycle = "Uninitialized" => earlyTick)
    /\ lastOp = "update" =>
          \A s \in Registered : TimesSystem(trace, "sys_update", s) = 1

C5_Witness ==
    /\ lastOp = "setup"
    /\ resetup
    /\ earlyTick
    /\ Registered = SystemNames
    /\ Len(HooksOf(trace, "sys_setup")) = 2

\* ------------------------------------------------------------ Vao claims
CallsOf(fn) == SelectSeq(glcalls, LAMBDA x : x.fn = fn)
Deletes == {"DeleteBuffers", "DeleteVertexArrays"}
Alive == {i \in 1..MaxVaos : vaos[i].state = "alive"}

\* C6: a draw (so also the draw that immediately follows the creation) issues
\* exactly one DrawArrays, with first = 0 and count = the vertex_num given at
\* construction, and leaves the vertex-array, ARRAY_BUFFER and 2D texture
\* bindings at 0.
C6_DrawOnceAndUnbind ==
    glOp.op = "draw" =>
        LET d == CallsOf("DrawArrays")
        IN /\ Len(d) = 1
           /\ d[1].args[2] = 0
           /\ d[1].args[3] = made[glOp.slot]
           /\ gl.boundArray = 0
           /\ gl.boundBuffer = 0
           /\ gl.boundTexture = 0

C6_Witness ==
    /\ glOp.op = "draw"
    /\ glOp.vao # 0
    /\ Cardinality(Alive) = 1
    /\ Len(CallsOf("DrawArrays")) = 1
    /\ CallsOf("DrawArrays")[1].args[3] = 6
    /\ CallsOf("DrawArrays")[1].boundArray = glOp.vao

\* C7: creation binds the vertex array, then the buffer, uploads once and
\* configures every attribute while both are bound, then unbinds the buffer and
\* then the vertex array; when it returns both bindings are 0.
C7_CreateBindsSymmetrically ==
    glOp.op = "new" =>
        LET n == Len(glcalls)
            inner == 5..(n - 2)
        IN /\ n >= 7
           /\ glcalls[1].fn = "GenVertexArrays" /\ glcalls[1].args[1] = glOp.vao
           /\ glcalls[2].fn = "GenBuffers" /\ glcalls[2].args[1] = glOp.vbo
           /\ glcalls[3].fn = "BindVertexArray" /\ glcalls[3].args[1] = glOp.vao
           /\ glcalls[4].fn = "BindBuffer" /\ glcalls[4].args[1] = glOp.vbo
           /\ glcalls[5].fn = "BufferData"
           /\ Len(CallsOf("BufferData")) = 1
           /\ \A k \in inner :
                 /\ glcalls[k].fn \in {"BufferData", "EnableVertexAttribArray",
                                       "VertexAttribPointer"}
                 /\ glcalls[k].boundArray = glOp.vao
                 /\ glcalls[k].boundBuffer = glOp.vbo
           /\ Len(CallsOf("EnableVertexAttribArray")) = Len(CallsOf("VertexAttribPointer"))
           /\ glcalls[n - 1].fn = "BindBuffer" /\ glcalls[n - 1].args[1] = 0
           /\ glcalls[n].fn = "BindVertexArray" /\ glcalls[n].args[1] = 0
           /\ gl.boundArray = 0
           /\ gl.boundBuffer = 0

C7_Witness ==
    /\ glOp.op = "new"
    /\ glOp.vao # 0
    /\ glOp.vbo # 0
    /\ Len(CallsOf("EnableVertexAttribArray")) = 3
    /\ glcalls[5].boundArray = glOp.vao
    /\ glcalls[5].boundBuffer = glOp.vbo

\* C8: when a draw issues DrawArrays, depth test, blend (with the SRC_ALPHA /
\* ONE_MINUS_SRC_ALPHA factors when enabled), polygon mode and face culling
\* equal the flags of the config of the Vao drawn, whatever earlier draws left.
C8_StatesMatchConfigAtDraw ==
    glOp.op = "draw" =>
        \A k \in DOMAIN glcalls :
           glcalls[k].fn = "DrawArrays" =>
              LET st == glcalls[k].states[1]
                  cfg == vaos[glOp.slot].config
              IN /\ st.depth = cfg.depth_test
                 /\ st.blend = cfg.blend
                 /\ (st.blend => st.blendFunc = <<"SRC_ALPHA", "ONE_MINUS_SRC_ALPHA">>)
                 /\ st.polygonMode = (IF cfg.wireframe THEN "LINE" ELSE "FILL")
                 /\ st.cull = cfg.culling

\* a draw with blending off in a context whose blend factors an earlier draw of
\* a Vao with the other config has set
C8_Witness ==
    /\ glOp.op = "draw"
    /\ Len(CallsOf("DrawArrays")) = 1
    /\ ~vaos[glOp.slot].config.blend
    /\ gl.blendFunc = <<"SRC_ALPHA", "ONE_MINUS_SRC_ALPHA">>
    /\ CallsOf("DrawArrays")[1].states[1].blend = FALSE

\* C9: the live vertex-array and buffer names are exactly the non-zero handles
\* of the Vaos alive, no two Vaos own the same name, and names are deleted only
\* by a drop, each once, and only names that no Vao alive owns.
C9_HandlesOwnedExactlyOnce ==
    /\ gl.arrays = {vaos[i].vao : i \in Alive} \ {0}
    /\ gl.buffers = {vaos[i].vbo : i \in Alive} \ {0}
    /\ \A i, j \in Alive :
          i # j => /\ (vaos[i].vao # 0 => vaos[i].vao # vaos[j].vao)
                   /\ (vaos[i].vbo # 0 => vaos[i].vbo # vaos[j].vbo)
    /\ \A k \in DOMAIN glcalls :
          glcalls[k].fn \in Deletes =>
             /\ glOp.op = "drop"
             /\ glcalls[k].args[1] = (IF glcalls[k].fn = "DeleteBuffers"
                                      THEN glOp.vbo ELSE glOp.vao)
             /\ \A m \in DOMAIN glcalls :
                   (glcalls[m].fn = glcalls[k].fn) => m = k
    /\ glOp.op = "drop" =>
          /\ Len(CallsOf("DeleteBuffers")) = (IF glOp.vbo # 0 THEN 1 ELSE 0)
          /\ Len(CallsOf("DeleteVertexArrays")) = (IF glOp.vao # 0 THEN 1 ELSE 0)

C9_Witness ==
    /\ glOp.op = "drop"
    /\ Len(CallsOf("DeleteBuffers")) = 1
    /\ Len(CallsOf("DeleteVertexArrays")) = 1
    /\ \E i \in Alive : vaos[i].vao # 0 /\ vaos[i].vbo # 0

\* the calls of the second run of a double teardown
SecondRun == SubSeq(glcalls, glOp.n + 1, Len(glcalls))

\* C10 as stated: when the teardown sequence runs a second time on the same
\* value, the second run issues no DeleteBuffers or DeleteVertexArrays call.
C10_DoubleTeardownNoOp ==
    glOp.op = "drop_twice" =>
        \A k \in DOMAIN SecondRun : SecondRun[k].fn \notin Deletes

\* C10 amended: a teardown issues no deletion call for a handle that is zero, so
\* a teardown with both handles zero is a no-op; the teardown does not zero the
\* handles, so a second run on the same value issues the deletion call of every
\* non-zero handle again.
C10_TeardownSkipsOnlyZeroHandles ==
    glOp.op \in {"drop", "drop_twice"} =>
        LET runs == IF glOp.op = "drop_twice" THEN 2 ELSE 1
        IN /\ Len(CallsOf("DeleteBuffers")) = (IF glOp.vbo = 0 THEN 0 ELSE runs)
           /\ Len(CallsOf("DeleteVertexArrays")) = (IF glOp.vao = 0 THEN 0 ELSE runs)
           /\ \A k \in DOMAIN glcalls :
                 /\ glcalls[k].fn \in Deletes
                 /\ glcalls[k].args[1] # 0
           /\ (glOp.op = "drop_twice" =>
                 [k \in DOMAIN SecondRun |-> SecondRun[k].fn] =
                 [k \in 1..glOp.n |-> glcalls[k].fn])

C10_Witness ==
    /\ glOp.op = "drop_twice"
    /\ glOp.vbo # 0
    /\ glOp.vao # 0
    /\ Len(SecondRun) = 2

\* the fn names of the calls of the last operation, in order
Fns == [k \in DOMAIN glcalls |-> glcalls[k].fn]

\* C11: the teardown of a Vao deletes the buffer object before the vertex-array
\* object: with both handles non-zero it issues DeleteBuffers(vbo) and then
\* DeleteVertexArrays(vao) and nothing else, and with a zero handle it issues
\* only the deletion of the other one, or nothing.
C11_DeleteBufferBeforeArray ==
    glOp.op = "drop" =>
        Fns = (IF glOp.vbo # 0 THEN <<"DeleteBuffers">> ELSE <<>>)
              \o (IF glOp.vao # 0 THEN <<"DeleteVertexArrays">> ELSE <<>>)

C11_Witness ==
    /\ glOp.op = "drop"
    /\ glOp.vbo # 0
    /\ glOp.vao # 0
    /\ Fns = <<"DeleteBuffers", "DeleteVertexArrays">>
    /\ glcalls[1].args[1] = glOp.vbo
    /\ glcalls[2].args[1] = glOp.vao

\* the entities whose sprite the last Scene operation ran hook h on
EntitiesOf(h) == {trace[k].ent : k \in {i \in DOMAIN trace : trace[i].hook = h}}

AttachOps == {"attach_component", "attach_component_panic"}

\* C12: an attach_component that returns leaves the entity with one component of
\* that type, holding the value just attached whatever value it held before; the
\* entity's component of the other type, every other entity and the set of
\* entities are as before, and the entity is matched by the sprite query from a
\* Sprite attach on.
C12_AttachReplacesValue ==
    [][lastOp' = "attach_component" =>
          LET e == lastArg'.ent
          IN /\ e \in DOMAIN world
             /\ DOMAIN world' = DOMAIN world
             /\ \A x \in DOMAIN world \ {e} : world'[x] = world[x]
             /\ IF lastArg'.sprite # ""
                THEN /\ world'[e].sprite.img = lastArg'.sprite
                     /\ lastArg'.old = world[e].sprite.img
                     /\ world'[e].transform = world[e].transform
                     /\ QuerySprite(world') = QuerySprite(world) \cup {e}
                ELSE /\ world'[e].transform = lastArg'.transform
                     /\ lastArg'.old = world[e].transform
                     /\ world'[e].sprite = world[e].sprite
                     /\ QuerySprite(world') = QuerySprite(world)]_vars

\* a Sprite attached over a different Sprite, on a Scene with a second entity
C12_Witness ==
    /\ lastOp = "attach_component"
    /\ lastArg.old = "s1"
    /\ lastArg.sprite = "s2"
    /\ world[lastArg.ent].sprite.img = "s2"
    /\ Cardinality(DOMAIN world) = 2

\* C13: attach_component on an entity that is not in the World panics and
\* leaves the World as it was; it returns only when the entity is in the World.
C13_AttachOnMissingEntityPanics ==
    [][lastOp' \in AttachOps =>
          IF lastArg'.ent \in DOMAIN world
          THEN lastOp' = "attach_component"
          ELSE lastOp' = "attach_component_panic" /\ world' = world]_vars

\* an attach on a despawned entity while another entity lives
C13_Witness ==
    /\ lastOp = "attach_component_panic"
    /\ lastArg.ent \notin DOMAIN world
    /\ lastArg.ent \in Issued
    /\ DOMAIN world # {}

\* the Scene operations other than update
HostOps == {"new_entity", "register_system", "setup", "render"} \cup AttachOps

\* C17: new_entity returns an identity that no earlier call returned, adds that
\* one entity with the Transform and Sprite passed in and touches no other
\* entity; new_entity, attach_component, register_system, setup and render keep
\* every identity in the World with the components it had, but for the component
\* an attach replaces and the initialization a setup runs.
C17_EntityIdentityDistinctAndStable ==
    [][/\ lastOp' = "new_entity" =>
             LET e == lastArg'.ent
             IN /\ e \notin Issued
                /\ DOMAIN world' = DOMAIN world \cup {e}
                /\ world'[e].transform = lastArg'.transform
                /\ world'[e].sprite.img = lastArg'.sprite
                /\ lastArg'.transform \in TransformVals
                /\ lastArg'.sprite \in SpriteVals
       /\ lastOp' \in HostOps =>
             \A x \in DOMAIN world :
                /\ x \in DOMAIN world'
                /\ (lastOp' \notin {"attach_component", "setup"} => world'[x] = world[x])
                /\ (lastOp' = "setup" =>
                       /\ world'[x].transform = world[x].transform
                       /\ world'[x].sprite.img = world[x].sprite.img)
                /\ (lastOp' = "attach_component" /\ x # lastArg'.ent =>
                       world'[x] = world[x])]_vars

\* a new entity on a Scene whose first entity a system has despawned
C17_Witness ==
    /\ lastOp = "new_entity"
    /\ lastArg.ent = 2
    /\ DOMAIN world = {2}
    /\ world[2].sprite.img = "s2"
    /\ world[2].transform = "t1"

\* C19 as stated: every sprite a Scene::render renders has had its setup run.
C19_RenderedSpritesWereSetUp ==
    lastOp = "render" =>
        \A e \in EntitiesOf("sprite_render") : world[e].sprite.ready

\* C20 as stated: the World holds as many entities as new_entity was called,
\* whatever the systems' update hooks have done; and while no update hook has
\* changed the World's structure every entity has a Transform and a Sprite.
C20_EntityCountEqualsNewEntityCalls ==
    /\ SceneDebug(world) = nextEntity - 1
    /\ ~structural =>
          \A e \in DOMAIN world : HasTransform(world[e]) /\ HasSprite(world[e])

\* C20 amended: new_entity adds one entity, and attach_component,
\* register_system, setup and render leave the set of entities as it is; while
\* no system's update hook has changed the World's structure, the World holds as
\* many entities as new_entity was called, each has a Transform and a Sprite,
\* and setup and render visit the same sprites, those of all entities. After an
\* update hook has despawned an entity the World holds fewer.
C20_EntityCountTracksNewEntity ==
    [][/\ lastOp' \in HostOps \ {"new_entity"} => DOMAIN world' = DOMAIN world
       /\ lastOp' = "new_entity" => SceneDebug(world') = SceneDebug(world) + 1
       /\ ~structural' =>
             /\ SceneDebug(world') = nextEntity' - 1
             /\ \A e \in DOMAIN world' :
                   HasTransform(world'[e]) /\ HasSprite(world'[e])
             /\ QuerySprite(world') = DOMAIN world'
             /\ QueryTransformSprite(world') = QuerySprite(world')
             /\ (lastOp' = "setup" =>
                    {trace'[k].ent : k \in {i \in DOMAIN trace' : trace'[i].hook = "sprite_setup"}}
                    = DOMAIN world')
             /\ (lastOp' = "render" =>
                    {trace'[k].ent : k \in {i \in DOMAIN trace' : trace'[i].hook = "sprite_render"}}
                    = DOMAIN world')]_vars

\* a render of two entities after updates that left the World's structure alone
C20_Witness ==
    /\ lastOp = "render"
    /\ ~structural
    /\ regLog # <<>>
    /\ SceneDebug(world) = 2
    /\ nextEntity = 3
    /\ EntitiesOf("sprite_render") = DOMAIN world

\* C14 as stated: a Vao::new whose declared attribute count differs from the
\* length of attribute_types or attribute_sizes returns no Vao, with either
\* build profile.
C14_LayoutMismatchIsFatal ==
    (/\ glOp.op \in {"new", "new_panic"}
     /\ \/ glArgs.num_attributes # Len(glArgs.types)
        \/ glArgs.num_attributes # Len(glArgs.sizes))
    => glOp.op = "new_panic"

\* C15 as stated: every constructed Vao has handles that are both zero or both
\* valid.
C15_HandlesBothZeroOrBothValid ==
    \A i \in Alive : (vaos[i].vao = 0) <=> (vaos[i].vbo = 0)

\* the calls a draw of the Vao last drawn would issue next, with the same draw
\* mode, were the wireframe flag of its config toggled
ToggledDraw ==
    LET v == vaos[glOp.slot]
        w == [v EXCEPT !.config.wireframe = ~v.config.wireframe]
    IN VaoDraw(Fresh(gl), w, CallsOf("DrawArrays")[1].args[1]).calls

PolygonModeOf(wireframe) == IF wireframe THEN "LINE" ELSE "FILL"

\* C16: Vao::new uploads the vertex data once and no draw or drop uploads; a
\* draw issues no BufferData, Gen or Delete call and leaves the handles and the
\* vertex count of the Vao and the live names as they are; a second draw with
\* the wireframe flag toggled issues the same calls with the same arguments but
\* for the polygon mode, LINE for FILL or FILL for LINE.
C16_UploadOnceDrawOnlyDraws ==
    /\ Len(CallsOf("BufferData")) = (IF glOp.op = "new" THEN 1 ELSE 0)
    /\ glOp.op = "draw" =>
          LET v == vaos[glOp.slot]
          IN /\ \A k \in DOMAIN glcalls :
                   glcalls[k].fn \notin {"BufferData", "GenVertexArrays", "GenBuffers",
                                         "BindBuffer", "DeleteBuffers", "DeleteVertexArrays"}
             /\ v.state = "alive"
             /\ v.vao = glOp.vao
             /\ v.vbo = glOp.vbo
             /\ v.vertex_num = made[glOp.slot]
             /\ gl.arrays = {vaos[i].vao : i \in Alive} \ {0}
             /\ gl.buffers = {vaos[i].vbo : i \in Alive} \ {0}
             /\ Len(ToggledDraw) = Len(glcalls)
             /\ \A k \in DOMAIN glcalls :
                   /\ ToggledDraw[k].fn = glcalls[k].fn
                   /\ IF glcalls[k].fn = "PolygonMode"
                      THEN /\ glcalls[k].args = <<PolygonModeOf(v.config.wireframe)>>
                           /\ ToggledDraw[k].args = <<PolygonModeOf(~v.config.wireframe)>>
                      ELSE ToggledDraw[k].args = glcalls[k].args

\* a draw of a Vao without wireframe, after a draw of a wireframe Vao
C16_Witness ==
    /\ glOp.op = "draw"
    /\ Cardinality(Alive) = 2
    /\ ~vaos[glOp.slot].config.wireframe
    /\ \E k \in DOMAIN glcalls : glcalls[k].fn = "PolygonMode" /\ glcalls[k].args = <<"FILL">>
    /\ \E k \in DOMAIN ToggledDraw : ToggledDraw[k].fn = "PolygonMode" /\ ToggledDraw[k].args = <<"LINE">>

\* C18: Vao::new enables and configures the slots 0..num_attributes-1 in order,
\* one per layout entry, slot i with the component count and type of entry i,
\* the stride passed, and the byte offset SizeOfGLfloat times the sum of the
\* component counts of the entries before it.
C18_AttributeOffsets ==
    glOp.op = "new" =>
        LET n == glArgs.num_attributes
            en == CallsOf("EnableVertexAttribArray")
            ptr == CallsOf("VertexAttribPointer")
        IN /\ n = Len(glArgs.sizes)
           /\ Len(en) = n
           /\ Len(ptr) = n
           /\ \A k \in 1..n :
                 /\ en[k].args = <<k - 1>>
                 /\ ptr[k].args = <<k - 1, glArgs.sizes[k], glArgs.types[k], glArgs.stride,
                                    Sum(SubSeq(glArgs.sizes, 1, k - 1)) * SizeOfGLfloat>>

\* the third slot of the layout <<3, 3, 2>>, at byte 24 of a 32-byte vertex
C18_Witness ==
    /\ glOp.op = "new"
    /\ glArgs.sizes = <<3, 3, 2>>
    /\ Len(CallsOf("VertexAttribPointer")) = 3
    /\ CallsOf("VertexAttribPointer")[1].args[5] = 0
    /\ CallsOf("VertexAttribPointer")[3].args = <<2, 2, "FLOAT", 32, 24>>

=============================================================================
